---- MODULE Spec2Model ----
(***************************************************************************)
(* Point isolation algorithm of larexamples                                *)
(* (larexamples/Algorithms/RemoveIsolatedSpacePoints/PointIsolationAlg.h), *)
(* instantiated with Coord = double.                                       *)
(*                                                                         *)
(* Numbers.  Point coordinates, range bounds and radius2 are integers      *)
(* (all exactly representable doubles).  The only other reals the code     *)
(* computes are R = sqrt(radius2) and the cell size                        *)
(*     cellSize = 2^k * maximumOptimalCellSize(R) = 2^k * R * 2 / sqrt(3). *)
(* A length s of that kind is carried by the integer 3*s^2 (for the cell   *)
(* size: 4^(k+1) * radius2), and R by radius2.  A quotient d / cellSize is *)
(* compared with an integer n through squares:                             *)
(*     n <= d / cellSize   <=>   n^2 * (3 cellSize^2) <= 3 d^2   (n,d>=0). *)
(* This is what the double computation yields: x * 2. and x * 2 are exact, *)
(* (2x)/x is exactly 2 (so radius2 = 3 gives cellSize = 2.0 exactly), and  *)
(* for the other radius2 in range the quotient is irrational and far (in   *)
(* ulps) from every integer.                                               *)
(*                                                                         *)
(* Points are referenced, as the grid cells do through iterators, by their *)
(* position in the input sequence (1-based in the model; the indices the   *)
(* algorithm returns are std::distance(begin, it), 0-based).               *)
(***************************************************************************)
EXTENDS Integers, Sequences, FiniteSets, TLC

\* ------------------------------------------------------------------------
\* Bounds of the model
\* ------------------------------------------------------------------------
MaxPoints == 2      \* longest input sequence
MaxRadius2 == 3     \* largest squared isolation radius

\* sizeof(SpacePartition<PointIter>::Cell_t) = sizeof(std::vector<...>), LP64
CellBytes == 24

Range(lo, up) == [lower |-> lo, upper |-> up]

\* the points the caller may put in its container
Points == { p \in (0..2) \X (0..1) \X (0..1) : p[2] = p[3] }

\* the volumes the engine is configured with: << rangeX, rangeY, rangeZ >>
Volumes ==
  { << Range(0, 2), Range(0, 1), Range(0, 1) >>,
    << Range(1, 2), Range(0, 1), Range(0, 1) >>,
    << Range(-14, 1), Range(0, 1), Range(0, 1) >>,
    << Range(0, 0), Range(0, 1), Range(0, 1) >>,
    << Range(0, 2), Range(0, 0), Range(0, 1) >>,
    << Range(0, 2), Range(0, 1), Range(0, 0) >> }

Radii2 == 1..MaxRadius2

Budgets == { 0, 2 * CellBytes, 3 * CellBytes }

Configuration(volume, r2, memory) ==
  [ rangeX |-> volume[1], rangeY |-> volume[2], rangeZ |-> volume[3],
    radius2 |-> r2, maxMemory |-> memory ]

\* configurations the engine is run with
Configurations ==
  { Configuration(v, r2, m) : v \in Volumes, r2 \in Radii2, m \in Budgets }

\* configurations handed to validateConfiguration() (a static method)
CheckedConfigurations ==
  [ rangeX: { Range(0, 2), Range(5, -5) },
    rangeY: { Range(0, 1), Range(1, 0) },
    rangeZ: { Range(0, 0), Range(2, 1) },
    radius2: { -1, 0, 1 }, maxMemory: { 0 } ]

\* ------------------------------------------------------------------------
\* CoordRange
\* ------------------------------------------------------------------------
contains(range, c) == (range.lower <= c) /\ (range.upper >= c)

empty(range) == range.lower = range.upper

valid(range) == range.lower <= range.upper

size(range) == range.upper - range.lower

rangeOffset(range, c) == c - range.lower

\* ------------------------------------------------------------------------
\* double -> integer conversions of quotients by a cell size
\* (cs3 = 3 * cellSize^2)
\* ------------------------------------------------------------------------
Abs(d) == IF d < 0 THEN -d ELSE d

\* CellDimIndex_t(d / cellSize): conversion truncates toward zero
TruncQuot(d, cs3) ==
  LET a == Abs(d)
      q == CHOOSE n \in 0..a :
             /\ n * n * cs3 <= 3 * a * a
             /\ (n + 1) * (n + 1) * cs3 > 3 * a * a
  IN  IF d < 0 THEN -q ELSE q

\* size_t(std::ceil(s / cellSize)) for s >= 0
CeilQuot(s, cs3) ==
  CHOOSE n \in 0..s :
    /\ n * n * cs3 >= 3 * s * s
    /\ (n = 0 \/ (n - 1) * (n - 1) * cs3 < 3 * s * s)

RECURSIVE Pow4(_)
Pow4(k) == IF k = 0 THEN 1 ELSE 4 * Pow4(k - 1)

\* ------------------------------------------------------------------------
\* GridContainerIndices (dims = <<nx, ny, nz>>)
\* ------------------------------------------------------------------------
gridSize(dims) == dims[1] * dims[2] * dims[3]

has(dims, idx) == (idx >= 0) /\ (idx < gridSize(dims))

hasX(dims, i) == (i >= 0) /\ (i < dims[1])

hasY(dims, i) == (i >= 0) /\ (i < dims[2])

hasZ(dims, i) == (i >= 0) /\ (i < dims[3])

\* variant: the strides are sizes[0] / dims[2] and dims[1] instead of
\* sizes[1] and sizes[2]
index_shiftedStrides(dims, id) ==
  id[1] * (dims[1] * dims[2]) + id[2] * dims[2] + id[3]

\* index(): id[0]*sizes[1] + id[1]*sizes[2] + id[2] in size_t arithmetic.
\* For a negative id the size_t value is this integer modulo 2^64; the only
\* use with negative ids is offset(), whose conversion to ptrdiff_t maps the
\* difference back to this integer (all values are far below 2^63).
index(dims, id) == id[1] * (dims[2] * dims[3]) + id[2] * dims[3] + id[3]

\* variant: index(origin) - index(cellID)
offset_swapped(dims, origin, cellID) ==
  index(dims, origin) - index(dims, cellID)

offset(dims, origin, cellID) == index(dims, cellID) - index(dims, origin)

\* ------------------------------------------------------------------------
\* details::diceVolume
\* ------------------------------------------------------------------------
diceVolume(rangeX, rangeY, rangeZ, cs3) ==
  << CeilQuot(size(rangeX), cs3),
     CeilQuot(size(rangeY), cs3),
     CeilQuot(size(rangeZ), cs3) >>

\* ------------------------------------------------------------------------
\* PointIsolationAlg: cell size
\* ------------------------------------------------------------------------
\* radius * 2. / std::sqrt(3.), as 3 * (cell size)^2, for radius^2 = r2
maximumOptimalCellSize(r2) == 4 * r2

\* variant: the loop stops when memory <= maxMemory
RECURSIVE doublings_untilNotAbove(_, _)
doublings_untilNotAbove(cfg, k) ==
  LET cs3 == Pow4(k) * maximumOptimalCellSize(cfg.radius2)
      partition == diceVolume(cfg.rangeX, cfg.rangeY, cfg.rangeZ, cs3)
      nCells == partition[1] * partition[2] * partition[3]
      memory == nCells * CellBytes
  IN  IF nCells <= 1 THEN k
      ELSE IF memory <= cfg.maxMemory THEN k
      ELSE doublings_untilNotAbove(cfg, k + 1)

\* the do-while loop of computeCellSize(): number of doublings, from k on
RECURSIVE doublings(_, _)
doublings(cfg, k) ==
  LET cs3 == Pow4(k) * maximumOptimalCellSize(cfg.radius2)
      partition == diceVolume(cfg.rangeX, cfg.rangeY, cfg.rangeZ, cs3)
      nCells == partition[1] * partition[2] * partition[3]
      memory == nCells * CellBytes
  IN  IF nCells <= 1 THEN k
      ELSE IF memory < cfg.maxMemory THEN k
      ELSE doublings(cfg, k + 1)

\* variant: without the early return for maxMemory = 0
computeCellSize_alwaysBounded(cfg) ==
  Pow4(doublings(cfg, 0)) * maximumOptimalCellSize(cfg.radius2)

computeCellSize(cfg) ==
  IF cfg.maxMemory = 0 THEN maximumOptimalCellSize(cfg.radius2)
  ELSE Pow4(doublings(cfg, 0)) * maximumOptimalCellSize(cfg.radius2)

\* ------------------------------------------------------------------------
\* SpacePartition: [cs3, xRange, yRange, zRange, dims, data]
\* data: flat cell index -> sequence of point references
\* ------------------------------------------------------------------------
SpacePartition(rangeX, rangeY, rangeZ, cs3) ==
  LET dims == diceVolume(rangeX, rangeY, rangeZ, cs3)
  IN  [ cellSize |-> cs3, xRange |-> rangeX, yRange |-> rangeY,
        zRange |-> rangeZ, dims |-> dims,
        data |-> [ c \in 0..(gridSize(dims) - 1) |-> << >> ] ]

cellNumber(part, c, range) == TruncQuot(rangeOffset(range, c), part.cellSize)

\* pointIndex(): the flat cell index, or the std::runtime_error thrown
pointIndex(part, point) ==
  LET xc == cellNumber(part, point[1], part.xRange)
      yc == cellNumber(part, point[2], part.yRange)
      zc == cellNumber(part, point[3], part.zRange)
  IN  IF ~hasX(part.dims, xc)
        THEN [ thrown |-> TRUE, axis |-> "x", coord |-> point[1], index |-> -1 ]
      ELSE IF ~hasY(part.dims, yc)
        THEN [ thrown |-> TRUE, axis |-> "y", coord |-> point[2], index |-> -1 ]
      ELSE IF ~hasZ(part.dims, zc)
        THEN [ thrown |-> TRUE, axis |-> "z", coord |-> point[3], index |-> -1 ]
      ELSE [ thrown |-> FALSE, axis |-> "", coord |-> 0,
             index |-> index(part.dims, << xc, yc, zc >>) ]

\* variant: the cells are emptied before the error is raised
RECURSIVE fillFrom_rolledBack(_, _, _)
fillFrom_rolledBack(part, pts, it) ==
  IF it > Len(pts)
    THEN [ thrown |-> FALSE, axis |-> "", coord |-> 0, at |-> 0,
           partition |-> part ]
  ELSE LET pi == pointIndex(part, pts[it])
       IN  IF pi.thrown
             THEN [ thrown |-> TRUE, axis |-> pi.axis, coord |-> pi.coord,
                    at |-> it,
                    partition |->
                      [ part EXCEPT !.data = [ c \in DOMAIN part.data |-> << >> ] ] ]
           ELSE fillFrom_rolledBack(
                  [ part EXCEPT !.data[pi.index] = Append(@, it) ],
                  pts, it + 1)

\* fill(): inserts pts[it], pts[it+1], ... until the end or the first throw
RECURSIVE fillFrom(_, _, _)
fillFrom(part, pts, it) ==
  IF it > Len(pts)
    THEN [ thrown |-> FALSE, axis |-> "", coord |-> 0, at |-> 0,
           partition |-> part ]
  ELSE LET pi == pointIndex(part, pts[it])
       IN  IF pi.thrown
             THEN [ thrown |-> TRUE, axis |-> pi.axis, coord |-> pi.coord,
                    at |-> it, partition |-> part ]
           ELSE fillFrom(
                  [ part EXCEPT !.data[pi.index] = Append(@, it) ],
                  pts, it + 1)

fill(part, pts) == fillFrom(part, pts, 1)

\* ------------------------------------------------------------------------
\* PointIsolationAlg: neighbourhood
\* ------------------------------------------------------------------------
\* variant: (int) (R / cellSize), without std::ceil
neighExtentOf_truncated(r2, cs3) ==
  CHOOSE n \in 0..2 :
    /\ n * n * cs3 <= 3 * r2
    /\ (n + 1) * (n + 1) * cs3 > 3 * r2

\* (int) std::ceil(R / cellSize), with R^2 = r2
neighExtentOf(r2, cs3) ==
  CHOOSE n \in 0..2 :
    /\ n * n * cs3 >= 3 * r2
    /\ (n = 0 \/ (n - 1) * (n - 1) * cs3 < 3 * r2)

\* the relative cell IDs visited by the three nested loops, in loop order
\* (x outermost, z innermost), the centre skipped
neighbourIDs(ext) ==
  LET side == 1 + 2 * ext
      centre == (side * side * side - 1) \div 2
      at(n) == << (n \div (side * side)) - ext,
                  ((n \div side) % side) - ext,
                  (n % side) - ext >>
  IN  [ i \in 1..(side * side * side - 1) |->
          at(IF i - 1 < centre THEN i - 1 ELSE i) ]

\* variant: the three loops start at 0 instead of -ext
buildNeighborhood_forwardOnly(dims, neighExtent) ==
  LET ids == SelectSeq(neighbourIDs(neighExtent),
                       LAMBDA id : id[1] >= 0 /\ id[2] >= 0 /\ id[3] >= 0)
  IN  [ i \in 1..Len(ids) |-> offset(dims, << 0, 0, 0 >>, ids[i]) ]

buildNeighborhood(dims, neighExtent) ==
  LET ids == neighbourIDs(neighExtent)
  IN  [ i \in 1..Len(ids) |-> offset(dims, << 0, 0, 0 >>, ids[i]) ]

\* ------------------------------------------------------------------------
\* PointIsolationAlg: isolation tests
\* ------------------------------------------------------------------------
sum_of_squares(x, y, z) == x * x + y * y + z * z

closeEnough(cfg, A, B) ==
  sum_of_squares(A[1] - B[1], A[2] - B[2], A[3] - B[3]) <= cfg.radius2

\* point: reference (position) of the point; otherPoints: a cell's content
isPointIsolatedFrom(cfg, pts, point, otherPoints) ==
  \A n \in 1..Len(otherPoints) :
    ~(closeEnough(cfg, pts[point], pts[otherPoints[n]])
        /\ point # otherPoints[n])

isPointIsolatedWithinNeighborhood(cfg, pts, part, cellIndex, point, neighList) ==
  \A n \in 1..Len(neighList) :
    has(part.dims, cellIndex + neighList[n])
      => isPointIsolatedFrom(cfg, pts, point,
                             part.data[cellIndex + neighList[n]])

\* variant: partition[cellIndex + neighOfs] without the has() test
neighboursRead_unchecked(cfg, pts, part, cellIndex, point, neighList) ==
  LET found(n) == /\ has(part.dims, cellIndex + neighList[n])
                  /\ ~isPointIsolatedFrom(cfg, pts, point,
                                          part.data[cellIndex + neighList[n]])
  IN  { cellIndex + neighList[n] :
          n \in { m \in 1..Len(neighList) :
                    \A k \in 1..(m - 1) : ~found(k) } }

\* the addresses at which isPointIsolatedWithinNeighborhood() takes
\* partition[cellIndex + neighOfs]: those passing has(), up to the first
\* cell that makes the point non-isolated (return false)
neighboursRead(cfg, pts, part, cellIndex, point, neighList) ==
  LET found(n) == /\ has(part.dims, cellIndex + neighList[n])
                  /\ ~isPointIsolatedFrom(cfg, pts, point,
                                          part.data[cellIndex + neighList[n]])
  IN  { cellIndex + neighList[n] :
          n \in { m \in 1..Len(neighList) :
                    /\ has(part.dims, cellIndex + neighList[m])
                    /\ \A k \in 1..(m - 1) : ~found(k) } }

\* ------------------------------------------------------------------------
\* PointIsolationAlg::removeIsolatedPoints
\* ------------------------------------------------------------------------
\* neighList as used by the cell loop: buildNeighborhood(), with { 0, 0, 0 }
\* (an initializer list of three offsets) inserted at the front when the
\* cell is not contained in the isolation sphere
neighListOf(cfg, cs3, dims) ==
  LET cellContainedInIsolationSphere ==
        cs3 <= maximumOptimalCellSize(cfg.radius2)
      neighList == buildNeighborhood(dims, neighExtentOf(cfg.radius2, cs3))
  IN  IF ~cellContainedInIsolationSphere
        THEN << 0, 0, 0 >> \o neighList
        ELSE neighList

\* variant: pushes the position of the point within its cell instead of
\* std::distance(begin, pointPtr)
cellNonIsolated_positionInCell(cfg, pts, part, neighList, cellIndex) ==
  LET cellPoints == part.data[cellIndex]
      cellContainedInIsolationSphere ==
        part.cellSize <= maximumOptimalCellSize(cfg.radius2)
      positions == [ n \in 1..Len(cellPoints) |-> n ]
  IN  IF cellContainedInIsolationSphere /\ Len(cellPoints) > 1
        THEN [ n \in 1..Len(cellPoints) |-> n - 1 ]
      ELSE LET kept == SelectSeq(positions,
                         LAMBDA n : ~isPointIsolatedWithinNeighborhood(
                                       cfg, pts, part, cellIndex,
                                       cellPoints[n], neighList))
           IN  [ n \in 1..Len(kept) |-> kept[n] - 1 ]

\* what the body of the cell loop appends to nonIsolated for one cell
cellNonIsolated(cfg, pts, part, neighList, cellIndex) ==
  LET cellPoints == part.data[cellIndex]
      cellContainedInIsolationSphere ==
        part.cellSize <= maximumOptimalCellSize(cfg.radius2)
      distance(n) == cellPoints[n] - 1
  IN  IF cellContainedInIsolationSphere /\ Len(cellPoints) > 1
        THEN [ n \in 1..Len(cellPoints) |-> distance(n) ]
      ELSE LET kept == SelectSeq(cellPoints,
                         LAMBDA p : ~isPointIsolatedWithinNeighborhood(
                                       cfg, pts, part, cellIndex, p, neighList))
           IN  [ n \in 1..Len(kept) |-> kept[n] - 1 ]

\* the addresses at which the cell loop takes partition[...]: every
\* cellIndex below nCells, and what the test of each point of a cell reads
\* unless the cell is settled without tests
cellsRead(cfg, pts, part, neighList) ==
  LET cellContainedInIsolationSphere ==
        part.cellSize <= maximumOptimalCellSize(cfg.radius2)
      tested(cellIndex) ==
        IF cellContainedInIsolationSphere /\ Len(part.data[cellIndex]) > 1
          THEN {}
        ELSE UNION { neighboursRead(cfg, pts, part, cellIndex,
                                    part.data[cellIndex][n], neighList) :
                       n \in 1..Len(part.data[cellIndex]) }
  IN  UNION { { cellIndex } \cup tested(cellIndex) :
                cellIndex \in 0..(gridSize(part.dims) - 1) }

RECURSIVE cellLoop(_, _, _, _, _)
cellLoop(cfg, pts, part, neighList, cellIndex) ==
  IF cellIndex >= gridSize(part.dims) THEN << >>
  ELSE cellNonIsolated(cfg, pts, part, neighList, cellIndex)
         \o cellLoop(cfg, pts, part, neighList, cellIndex + 1)

NoConfiguration == Configuration(<< Range(0, 0), Range(0, 0), Range(0, 0) >>, 0, 0)

NoPartition == [ cellSize |-> 0, xRange |-> Range(0, 0), yRange |-> Range(0, 0),
                 zRange |-> Range(0, 0), dims |-> << 0, 0, 0 >>,
                 data |-> << >> ]

\* the call: its outcome ("returned" or "thrown"), the returned indices, the
\* exception's axis and coordinate, the position of the point fill() was at
\* when it threw, and the partition as fill() left it
removeIsolatedPoints(cfg, pts) ==
  LET cellSize == computeCellSize(cfg)
      empty_partition ==
        SpacePartition(cfg.rangeX, cfg.rangeY, cfg.rangeZ, cellSize)
      neighList == neighListOf(cfg, cellSize, empty_partition.dims)
      filled == fill(empty_partition, pts)
  IN  IF filled.thrown
        THEN [ op |-> "removeIsolatedPoints", points |-> pts,
               outcome |-> "thrown", nonIsolated |-> << >>,
               axis |-> filled.axis, coord |-> filled.coord,
               at |-> filled.at, partition |-> filled.partition,
               errors |-> << >>, checked |-> NoConfiguration ]
      ELSE [ op |-> "removeIsolatedPoints", points |-> pts,
             outcome |-> "returned",
             nonIsolated |-> cellLoop(cfg, pts, filled.partition, neighList, 0),
             axis |-> "", coord |-> 0, at |-> 0,
             partition |-> filled.partition, errors |-> << >>,
             checked |-> NoConfiguration ]

\* a call that does not get past the cell size
noResult(pts, outcome) ==
  [ op |-> "removeIsolatedPoints", points |-> pts, outcome |-> outcome,
    nonIsolated |-> << >>, axis |-> "", coord |-> 0, at |-> 0,
    partition |-> NoPartition, errors |-> << >>,
    checked |-> NoConfiguration ]

\* the outcomes of the call. With radius2 = 0 maximumOptimalCellSize() is 0
\* and doubling keeps it 0: assert(cellSize > 0) fails; where assertions are
\* compiled out the grid is diced with cell size 0 (undefined). With a
\* memory budget diceVolume() is first called with cell size 0 inside
\* computeCellSize(), converting an infinite or NaN quotient to size_t
\* (undefined): the loop leaves at once or, the cell size staying 0, never.
removeIsolatedPointsOutcomes(cfg, pts) ==
  IF maximumOptimalCellSize(cfg.radius2) > 0
    THEN { removeIsolatedPoints(cfg, pts) }
  ELSE { noResult(pts, "assertion failed"), noResult(pts, "undefined") }
         \cup (IF cfg.maxMemory = 0 THEN {}
               ELSE { noResult(pts, "never returns") })

\* ------------------------------------------------------------------------
\* PointIsolationAlg::bruteRemoveIsolatedPoints
\* ------------------------------------------------------------------------
\* variant: a point is skipped when it has the coordinates of the reference
\* point (comparison by value instead of by iterator)
bruteNonIsolated_byValue(cfg, pts) ==
  LET its == [ i \in 1..Len(pts) |-> i ]
      kept == SelectSeq(its, LAMBDA it :
                \E ioth \in 1..Len(pts) :
                  pts[it] # pts[ioth] /\ closeEnough(cfg, pts[it], pts[ioth]))
  IN  [ n \in 1..Len(kept) |-> kept[n] - 1 ]

bruteNonIsolated(cfg, pts) ==
  LET its == [ i \in 1..Len(pts) |-> i ]
      kept == SelectSeq(its, LAMBDA it :
                \E ioth \in 1..Len(pts) :
                  it # ioth /\ closeEnough(cfg, pts[it], pts[ioth]))
  IN  [ n \in 1..Len(kept) |-> kept[n] - 1 ]

bruteRemoveIsolatedPoints(cfg, pts) ==
  [ op |-> "bruteRemoveIsolatedPoints", points |-> pts,
    outcome |-> "returned", nonIsolated |-> bruteNonIsolated(cfg, pts),
    axis |-> "", coord |-> 0, at |-> 0, partition |-> NoPartition,
    errors |-> << >>, checked |-> NoConfiguration ]

\* ------------------------------------------------------------------------
\* PointIsolationAlg::validateConfiguration
\* ------------------------------------------------------------------------
\* variant: stops at the first failed check
configurationErrors_failFast(cfg) ==
  IF cfg.radius2 < 0 THEN << "radius2" >>
  ELSE IF ~valid(cfg.rangeX) THEN << "rangeX" >>
  ELSE IF ~valid(cfg.rangeY) THEN << "rangeY" >>
  ELSE IF ~valid(cfg.rangeZ) THEN << "rangeZ" >>
  ELSE << >>

\* the errors vector, one entry per failed check, in the order of the checks
configurationErrors(cfg) ==
  (IF cfg.radius2 < 0 THEN << "radius2" >> ELSE << >>)
    \o (IF ~valid(cfg.rangeX) THEN << "rangeX" >> ELSE << >>)
    \o (IF ~valid(cfg.rangeY) THEN << "rangeY" >> ELSE << >>)
    \o (IF ~valid(cfg.rangeZ) THEN << "rangeZ" >> ELSE << >>)

validateConfiguration(cfg) ==
  LET errors == configurationErrors(cfg)
  IN  [ op |-> "validateConfiguration", points |-> << >>,
        outcome |-> IF errors = << >> THEN "returned" ELSE "thrown",
        nonIsolated |-> << >>, axis |-> "", coord |-> 0, at |-> 0,
        partition |-> NoPartition, errors |-> errors, checked |-> cfg ]

\* ------------------------------------------------------------------------
\* State: the engine's configuration (config), the caller's Configuration_t
\* as last handed to the engine (supplied), the caller's container of points,
\* the call just made (none after the configuration or the points changed),
\* the removeIsolatedPoints() call made right before it on the same
\* configuration and points (previous), and whether some
\* removeIsolatedPoints() call on this engine has thrown (failed)
\* ------------------------------------------------------------------------
VARIABLES config, supplied, points, last, previous, failed,
          indices, geom, radius2, isolationAlg

vars == << config, supplied, points, last, previous, failed,
          indices, geom, radius2, isolationAlg >>

\* no GridContainerIndices object, no geometry
NoIndices == << 0, 0, 0 >>

NoGeometry == << Range(0, 0), Range(0, 0), Range(0, 0) >>

NoCall ==
  [ op |-> "none", points |-> << >>, outcome |-> "none",
    nonIsolated |-> << >>, axis |-> "", coord |-> 0, at |-> 0,
    partition |-> NoPartition, errors |-> << >>,
    checked |-> NoConfiguration ]

\* PointIsolationAlg(first_config): config(first_config), no validation
Init ==
  /\ supplied \in Configurations
  /\ config = supplied
  /\ points = << >>
  /\ last = NoCall
  /\ previous = NoCall
  /\ failed = FALSE
  /\ indices = NoIndices
  /\ geom = NoGeometry
  /\ radius2 = 0
  /\ isolationAlg = FALSE

\* variant: the memory budget of the first configuration is kept
reconfigure_keepsBudget(cfg, new_config) ==
  [ new_config EXCEPT !.maxMemory = cfg.maxMemory ]

\* reconfigure(new_config): config = new_config
reconfigure(cfg, new_config) == new_config

\* the caller changes one setting of its configuration and reconfigures the
\* engine with it
NewConfigurations(cfg) ==
  { [ cfg EXCEPT !.radius2 = r2 ] : r2 \in Radii2 }
    \cup { [ cfg EXCEPT !.maxMemory = m ] : m \in Budgets }
    \cup { Configuration(v, cfg.radius2, cfg.maxMemory) : v \in Volumes }

Reconfigure ==
  \E new_config \in NewConfigurations(supplied) :
    /\ supplied' = new_config
    /\ config' = reconfigure(config, new_config)
    /\ last' = NoCall
    /\ previous' = NoCall
    /\ UNCHANGED << points, failed,
                 indices, geom, radius2, isolationAlg >>

\* the caller's points.push_back(p)
AddPoint ==
  \E p \in Points :
    /\ Len(points) < MaxPoints
    /\ points' = Append(points, p)
    /\ last' = NoCall
    /\ previous' = NoCall
    /\ UNCHANGED << config, supplied, failed,
                 indices, geom, radius2, isolationAlg >>

\* removeIsolatedPoints(points) const
RemoveIsolatedPoints ==
  /\ last' \in removeIsolatedPointsOutcomes(config, points)
  /\ previous' = IF last.op = "removeIsolatedPoints" THEN last ELSE NoCall
  /\ failed' = (failed \/ last'.outcome = "thrown")
  /\ UNCHANGED << config, supplied, points,
               indices, geom, radius2, isolationAlg >>

\* bruteRemoveIsolatedPoints(points.begin(), points.end()) const
BruteRemoveIsolatedPoints ==
  /\ last' = bruteRemoveIsolatedPoints(config, points)
  /\ previous' = NoCall
  /\ UNCHANGED << config, supplied, points, failed,
               indices, geom, radius2, isolationAlg >>

\* validateConfiguration(c) is static: c need not be the engine's, and the
\* call can be made whatever the engine and the caller's points are
ValidateConfiguration ==
  \E c \in CheckedConfigurations :
    /\ last' = validateConfiguration(c)
    /\ previous' = NoCall
    /\ UNCHANGED << config, supplied, points, failed,
                 indices, geom, radius2, isolationAlg >>

\* the operations on the engine
Next ==
  \/ Reconfigure
  \/ AddPoint
  \/ RemoveIsolatedPoints
  \/ BruteRemoveIsolatedPoints

Spec == Init /\ [][Next]_vars

\* ------------------------------------------------------------------------
\* The static validateConfiguration(), called at any time while the caller
\* holds an engine and collects points (as StressTest() does between the
\* creation of the points and the run)
\* ------------------------------------------------------------------------
InitValidate ==
  /\ supplied \in { c \in Configurations :
                      c.radius2 = 1 /\ c.maxMemory = 0 }
  /\ config = supplied
  /\ points = << >>
  /\ last = NoCall
  /\ previous = NoCall
  /\ failed = FALSE
  /\ indices = NoIndices
  /\ geom = NoGeometry
  /\ radius2 = 0
  /\ isolationAlg = FALSE

NextValidate ==
  \/ AddPoint
  \/ ValidateConfiguration

SpecValidate == InitValidate /\ [][NextValidate]_vars

\* ------------------------------------------------------------------------
\* PointIsolationTest1 (PointIsolationAlg_test.cc), lengths in units of 1/2:
\* ranges { -2., +2. }, radius2 = square(1.), default maxMemory; the points
\* the test pushes back, here pushed back in any order and number up to 4
\* ------------------------------------------------------------------------
DefaultMaxMemory == 100 * 1048576

Test1Config ==
  Configuration(<< Range(-4, 4), Range(-4, 4), Range(-4, 4) >>, 4,
                DefaultMaxMemory)

Test1Points ==
  << << 2, 2, 2 >>, << -2, -2, -2 >>, << 1, 2, 2 >>, << -1, -2, -2 >> >>

InitTest1 ==
  /\ supplied = Test1Config
  /\ config = supplied
  /\ points = << >>
  /\ last = NoCall
  /\ previous = NoCall
  /\ failed = FALSE
  /\ indices = NoIndices
  /\ geom = NoGeometry
  /\ radius2 = 0
  /\ isolationAlg = FALSE

Test1PushBack ==
  \E n \in 1..Len(Test1Points) :
    /\ Len(points) < Len(Test1Points)
    /\ points' = Append(points, Test1Points[n])
    /\ last' = NoCall
    /\ previous' = NoCall
    /\ UNCHANGED << config, supplied, failed,
                 indices, geom, radius2, isolationAlg >>

NextTest1 ==
  \/ Test1PushBack
  \/ RemoveIsolatedPoints

SpecTest1 == InitTest1 /\ [][NextTest1]_vars

\* ------------------------------------------------------------------------
\* StressTest and main() (PointIsolationAlgStress_test.cc), lengths in units
\* of 1/4: points on a cubic lattice of spacing 1 (here 4), coordinates
\* 0 .. pointsPerSide - 1, in a volume with a margin of 0.5 (here 2)
\* ------------------------------------------------------------------------
MaxPointsPerSide == 4

StressUnit == 4

\* squared radii (radius2 = 1 is StressUnit^2 = 16 here)
StressRadii2 == { 12, 15, 16, 20 }

cube(side) == side * side * side

\* createPointsInCube(): i outermost, k innermost
createPointsInCube(pointsPerSide) ==
  [ n \in 1..cube(pointsPerSide) |->
      << StressUnit * ((n - 1) \div (pointsPerSide * pointsPerSide)),
         StressUnit * (((n - 1) \div pointsPerSide) % pointsPerSide),
         StressUnit * ((n - 1) % pointsPerSide) >> ]

\* main(): config.rangeX = { -margin, pointsPerSide - 1.0 + margin }
StressConfig(pointsPerSide, r2) ==
  LET margin == StressUnit \div 2
      range == Range(-margin, StressUnit * (pointsPerSide - 1) + margin)
  IN  Configuration(<< range, range, range >>, r2, DefaultMaxMemory)

\* the pointsPerSide main() made the configuration for
pointsPerSideOf(cfg) == (size(cfg.rangeX) \div StressUnit)

InitStress ==
  /\ supplied \in { StressConfig(pointsPerSide, r2) :
                      pointsPerSide \in 1..MaxPointsPerSide,
                      r2 \in StressRadii2 }
  /\ config = supplied
  /\ points = << >>
  /\ last = NoCall
  /\ previous = NoCall
  /\ failed = FALSE
  /\ indices = NoIndices
  /\ geom = NoGeometry
  /\ radius2 = 0
  /\ isolationAlg = FALSE

\* one points.push_back(p) of createPointsInCube()
StressPushBack ==
  /\ Len(points) < cube(pointsPerSideOf(config))
  /\ points' = Append(points,
                      createPointsInCube(pointsPerSideOf(config))[Len(points) + 1])
  /\ last' = NoCall
  /\ previous' = NoCall
  /\ UNCHANGED << config, supplied, failed,
               indices, geom, radius2, isolationAlg >>

\* algo.removeIsolatedPoints(points), once the points are created
StressRun ==
  /\ Len(points) = cube(pointsPerSideOf(config))
  /\ last.op = "none"
  /\ RemoveIsolatedPoints

NextStress ==
  \/ StressPushBack
  \/ StressRun

SpecStress == InitStress /\ [][NextStress]_vars

\* ------------------------------------------------------------------------
\* Engines with any configuration validateConfiguration() accepts: squared
\* radius 0 included
\* ------------------------------------------------------------------------
AcceptedConfigurations ==
  { Configuration(v, r2, m) : v \in Volumes, r2 \in 0..MaxRadius2,
                              m \in Budgets }

InitAccepted ==
  /\ supplied \in AcceptedConfigurations
  /\ config = supplied
  /\ points = << >>
  /\ last = NoCall
  /\ previous = NoCall
  /\ failed = FALSE
  /\ indices = NoIndices
  /\ geom = NoGeometry
  /\ radius2 = 0
  /\ isolationAlg = FALSE

NextAccepted ==
  \/ AddPoint
  \/ RemoveIsolatedPoints

SpecAccepted == InitAccepted /\ [][NextAccepted]_vars

\* ------------------------------------------------------------------------
\* GridContainerIndices on its own: an index manager GridContainerIndices(dims)
\* and the indexing calls made on it (last: the call just made)
\* ------------------------------------------------------------------------
MaxCellsPerAxis == 3

\* new_dims
GridDims ==
  (1..MaxCellsPerAxis) \X (1..MaxCellsPerAxis) \X (1..MaxCellsPerAxis)

\* cell coordinates passed to operator[] (no check: some are not in the grid)
CellIDs ==
  (0..(MaxCellsPerAxis - 1)) \X (0..(MaxCellsPerAxis - 1))
    \X (0..(MaxCellsPerAxis - 1))

\* relative cell coordinates, as buildNeighborhood() passes to offset()
CellDeltas ==
  ((1 - MaxCellsPerAxis)..(MaxCellsPerAxis - 1))
    \X ((1 - MaxCellsPerAxis)..(MaxCellsPerAxis - 1))
    \X ((1 - MaxCellsPerAxis)..(MaxCellsPerAxis - 1))

InitGrid ==
  /\ indices \in GridDims
  /\ last = [ op |-> "none" ]
  /\ supplied = NoConfiguration
  /\ config = NoConfiguration
  /\ points = << >>
  /\ previous = NoCall
  /\ failed = FALSE
  /\ geom = NoGeometry
  /\ radius2 = 0
  /\ isolationAlg = FALSE

\* indices[id]
GridIndex ==
  \E id \in CellIDs :
    /\ last' = [ op |-> "index", id |-> id, result |-> index(indices, id) ]
    /\ UNCHANGED << config, supplied, points, previous, failed,
                    indices, geom, radius2, isolationAlg >>

\* indices.offset({ 0, 0, 0 }, cellID)
GridOffset ==
  \E cellID \in CellDeltas :
    /\ last' = [ op |-> "offset", origin |-> << 0, 0, 0 >>,
                  cellID |-> cellID,
                  result |-> offset(indices, << 0, 0, 0 >>, cellID) ]
    /\ UNCHANGED << config, supplied, points, previous, failed,
                    indices, geom, radius2, isolationAlg >>

NextGrid ==
  \/ GridIndex
  \/ GridOffset

SpecGrid == InitGrid /\ [][NextGrid]_vars

\* ------------------------------------------------------------------------
\* SpacePointIsolationAlg: radius2 (square of the configured radius), geom
\* (here the box bounding all TPCs of the geometry last passed to setup()),
\* isolationAlg (whether the pointer holds a PointIsolationAlg), whose
\* configuration is config; supplied is the configuration of the most recent
\* setup() that passed validation
\* ------------------------------------------------------------------------
\* the boxes merged from the TPCs of the geometries; the last one has bounds
\* that are not lower <= upper on x (as with not-a-number bounds)
Geometries ==
  { << Range(0, 2), Range(0, 1), Range(0, 1) >>,
    << Range(1, 2), Range(0, 1), Range(0, 1) >>,
    << Range(-14, 1), Range(0, 1), Range(0, 1) >>,
    << Range(2, 0), Range(0, 1), Range(0, 1) >> }

\* positions of the recob::SpacePoint objects
SpacePoints == { << 0, 0, 0 >>, << 1, 0, 0 >>, << 2, 1, 1 >> }

\* config.rangeX = { box.MinX(), box.MaxX() } and so on
fillAlgConfigFromGeometry(cfg, box) ==
  [ cfg EXCEPT !.rangeX = box[1], !.rangeY = box[2], !.rangeZ = box[3] ]

\* the Configuration_t initialize() builds: default maxMemory, radius2, and
\* the ranges from the geometry
derivedConfiguration(r2, box) ==
  fillAlgConfigFromGeometry(
    [ NoConfiguration EXCEPT !.radius2 = r2, !.maxMemory = DefaultMaxMemory ],
    box)

\* variant: the configuration is used without validation
initialize_unvalidated(alg, cfg, r2, box) ==
  [ thrown |-> FALSE, errors |-> << >>, isolationAlg |-> TRUE,
    config |-> derivedConfiguration(r2, box) ]

\* initialize(): the outcome, and the pointer and the configuration of the
\* PointIsolationAlg after it
initialize(alg, cfg, r2, box) ==
  LET new_config == derivedConfiguration(r2, box)
      errors == configurationErrors(new_config)
  IN  IF errors # << >>
        THEN [ thrown |-> TRUE, errors |-> errors, isolationAlg |-> alg,
               config |-> cfg ]
      ELSE [ thrown |-> FALSE, errors |-> << >>, isolationAlg |-> TRUE,
             config |-> IF alg THEN reconfigure(cfg, new_config)
                        ELSE new_config ]

\* SpacePointIsolationAlg(config): radius2(cet::square(config.radius()))
InitWrapper ==
  /\ radius2 \in Radii2
  /\ geom = NoGeometry
  /\ isolationAlg = FALSE
  /\ config = NoConfiguration
  /\ supplied = NoConfiguration
  /\ points = << >>
  /\ last = NoCall
  /\ previous = NoCall
  /\ failed = FALSE
  /\ indices = NoIndices

\* setup(geometry): geom = &geometry; initialize();
Setup ==
  \E box \in Geometries :
    LET done == initialize(isolationAlg, config, radius2, box)
    IN  /\ geom' = box
        /\ isolationAlg' = done.isolationAlg
        /\ config' = done.config
        /\ supplied' = IF configurationErrors(derivedConfiguration(radius2, box))
                            = << >>
                         THEN derivedConfiguration(radius2, box)
                         ELSE supplied
        /\ last' = [ op |-> "setup", points |-> << >>,
                     outcome |-> IF done.thrown THEN "thrown" ELSE "returned",
                     nonIsolated |-> << >>, axis |-> "", coord |-> 0,
                     at |-> 0, partition |-> NoPartition,
                     errors |-> done.errors,
                     checked |-> derivedConfiguration(radius2, box) ]
        /\ UNCHANGED << points, previous, failed, indices, radius2 >>

\* the caller's std::vector<recob::SpacePoint> grows
AddSpacePoint ==
  \E p \in SpacePoints :
    /\ Len(points) < MaxPoints
    /\ points' = Append(points, p)
    /\ last' = NoCall
    /\ UNCHANGED << config, supplied, previous, failed,
                    indices, geom, radius2, isolationAlg >>

\* removeIsolatedPoints(points): isolationAlg->removeIsolatedPoints(begin,
\* end); with no algorithm the pointer is null and the call is undefined
WrapperRemoveIsolatedPoints ==
  /\ last' \in IF isolationAlg
                 THEN removeIsolatedPointsOutcomes(config, points)
               ELSE { noResult(points, "undefined") }
  /\ UNCHANGED << config, supplied, points, previous, failed,
                  indices, geom, radius2, isolationAlg >>

NextWrapper ==
  \/ Setup
  \/ AddSpacePoint
  \/ WrapperRemoveIsolatedPoints

SpecWrapper == InitWrapper /\ [][NextWrapper]_vars

\* ========================================================================
\* Properties
\* ========================================================================
Called == last.op = "removeIsolatedPoints"

Returned == Called /\ last.outcome = "returned"

Thrown == Called /\ last.outcome = "thrown"

IndexSet(seq) == { seq[n] : n \in 1..Len(seq) }

InVolume(cfg, p) ==
  /\ contains(cfg.rangeX, p[1])
  /\ contains(cfg.rangeY, p[2])
  /\ contains(cfg.rangeZ, p[3])

AllInVolume == \A n \in 1..Len(points) : InVolume(config, points[n])

Dist2(p, q) ==
  (p[1] - q[1]) * (p[1] - q[1]) + (p[2] - q[2]) * (p[2] - q[2])
    + (p[3] - q[3]) * (p[3] - q[3])

\* 0-based indices of the points with another point within the radius
WithNeighbour(cfg, pts) ==
  { i \in 0..(Len(pts) - 1) :
      \E j \in 0..(Len(pts) - 1) :
        j # i /\ Dist2(pts[i + 1], pts[j + 1]) <= cfg.radius2 }

\* the cells of the partition fill() left
Cells == DOMAIN last.partition.data

CellContainedInIsolationSphere ==
  last.partition.cellSize <= maximumOptimalCellSize(config.radius2)

\* C1: for points that all lie in the configured volume, the indices
\* removeIsolatedPoints returns are, as a set, those the brute-force
\* reference returns: the points with another point within the radius.
C1_EqualsBruteForce ==
  (Returned /\ AllInVolume) =>
    /\ IndexSet(last.nonIsolated) = IndexSet(bruteNonIsolated(config, points))
    /\ IndexSet(last.nonIsolated) = WithNeighbour(config, points)

\* C2: two points binned into the same cell of a grid with the maximum
\* optimal cell size are within the radius of each other, so every point
\* marked non-isolated by the fast path (cell contained in the isolation
\* sphere, more than one point in the cell) has another point within the
\* radius.
C2_FastPathPointsHaveNeighbour ==
  (Returned /\ CellContainedInIsolationSphere) =>
    \A c \in Cells :
      LET cellPoints == last.partition.data[c]
      IN  Len(cellPoints) > 1 =>
            /\ \A a, b \in IndexSet(cellPoints) :
                 Dist2(points[a], points[b]) <= config.radius2
            /\ \A a \in IndexSet(cellPoints) :
                 (a - 1) \in IndexSet(last.nonIsolated)
                   /\ (a - 1) \in WithNeighbour(config, points)

\* C3: the call throws whenever some input point is outside the configured
\* range on some axis; no point outside the volume is stored in a cell.
C3_OutsidePointsRejected ==
  Called =>
    /\ (~AllInVolume => last.outcome = "thrown")
    /\ \A c \in Cells :
         \A a \in IndexSet(last.partition.data[c]) :
           InVolume(config, points[a])

\* the first point of the input outside the volume, the first axis (x, y, z)
\* on which it is, and its coordinate there
FirstOffending ==
  CHOOSE n \in 1..Len(points) :
    /\ ~InVolume(config, points[n])
    /\ \A m \in 1..(n - 1) : InVolume(config, points[m])

FirstOffendingAxis(p) ==
  IF ~contains(config.rangeX, p[1]) THEN "x"
  ELSE IF ~contains(config.rangeY, p[2]) THEN "y"
  ELSE "z"

CoordOn(p, axis) ==
  IF axis = "x" THEN p[1] ELSE IF axis = "y" THEN p[2] ELSE p[3]

\* C4: when the call throws, the error is for the first input point outside
\* the volume and names the first axis, in the order x, y, z, on which that
\* point is outside its range, with the point's coordinate on that axis.
C4_ErrorNamesFirstOffender ==
  Thrown =>
    /\ ~AllInVolume
    /\ last.at = FirstOffending
    /\ last.axis = FirstOffendingAxis(points[FirstOffending])
    /\ last.coord = CoordOn(points[FirstOffending], last.axis)

\* the number of the four conditions validateConfiguration is to report
InvalidFields(cfg) ==
  (IF cfg.radius2 < 0 THEN 1 ELSE 0)
    + (IF cfg.rangeX.lower > cfg.rangeX.upper THEN 1 ELSE 0)
    + (IF cfg.rangeY.lower > cfg.rangeY.upper THEN 1 ELSE 0)
    + (IF cfg.rangeZ.lower > cfg.rangeZ.upper THEN 1 ELSE 0)

\* C5: validateConfiguration throws if and only if radius2 < 0 or one of
\* the three ranges has lower > upper, and the number of errors it reports
\* is the number of those conditions that hold.
C5_ValidationReportsEveryError ==
  last.op = "validateConfiguration" =>
    /\ (last.outcome = "thrown") <=> (InvalidFields(last.checked) > 0)
    /\ (last.outcome = "returned") <=> (InvalidFields(last.checked) = 0)
    /\ Len(last.errors) = InvalidFields(last.checked)

\* C5 witness: radius2 = -1 and rangeX = { 5, -5 }, the other ranges valid,
\* reported as exactly 2 errors
C5_Witness ==
  /\ last.op = "validateConfiguration"
  /\ last.checked.radius2 = -1
  /\ last.checked.rangeX = Range(5, -5)
  /\ valid(last.checked.rangeY)
  /\ valid(last.checked.rangeZ)
  /\ last.outcome = "thrown"
  /\ Len(last.errors) = 2

\* C6: an axis whose range has size 0 still gets at least one cell, so the
\* grid has at least one cell and a point on that coordinate is inserted.
C6_DegenerateAxisHasACell ==
  Called =>
    /\ (empty(config.rangeX) => last.partition.dims[1] >= 1)
    /\ (empty(config.rangeY) => last.partition.dims[2] >= 1)
    /\ (empty(config.rangeZ) => last.partition.dims[3] >= 1)
    /\ ((empty(config.rangeX) \/ empty(config.rangeY) \/ empty(config.rangeZ))
          /\ AllInVolume => last.outcome = "returned")

\* C7: two points inside the volume whose squared distance is exactly
\* radius2 are both reported non-isolated.
C7_BoundaryIncluded ==
  Called =>
    \A a, b \in 1..Len(points) :
      (/\ a # b
       /\ InVolume(config, points[a])
       /\ InVolume(config, points[b])
       /\ Dist2(points[a], points[b]) = config.radius2)
      => /\ last.outcome = "returned"
         /\ (a - 1) \in IndexSet(last.nonIsolated)
         /\ (b - 1) \in IndexSet(last.nonIsolated)

\* C8: with valid ranges and radius2 > 0, a call on a single point inside
\* the volume (bounds included) returns, and returns no index.
C8_SinglePointIsolated ==
  (Called /\ Len(points) = 1 /\ InVolume(config, points[1])) =>
    /\ last.outcome = "returned"
    /\ last.nonIsolated = << >>

\* C9: for the same volume, memory budget and points, a call with a smaller
\* radius2 returns no more indices than the call with the larger one.
C9_MonotonicInRadius ==
  (Returned /\ AllInVolume) =>
    \A r2 \in Radii2 :
      r2 <= config.radius2 =>
        LET smaller == removeIsolatedPoints([ config EXCEPT !.radius2 = r2 ],
                                            points)
        IN  smaller.outcome = "returned" =>
              Len(smaller.nonIsolated) <= Len(last.nonIsolated)

\* C10: if a returned index i has another point j within the radius, j is
\* returned too.
C10_Symmetric ==
  Returned =>
    \A i \in IndexSet(last.nonIsolated) :
      \A j \in 0..(Len(points) - 1) :
        (j # i /\ Dist2(points[i + 1], points[j + 1]) <= config.radius2)
          => j \in IndexSet(last.nonIsolated)

\* C10 witness: two points within the radius of each other, alone in two
\* different cells (so found through the neighbourhood), both returned
C10_Witness ==
  /\ Returned
  /\ Len(points) = 2
  /\ Dist2(points[1], points[2]) <= config.radius2
  /\ pointIndex(last.partition, points[1]).index
       # pointIndex(last.partition, points[2]).index
  /\ IndexSet(last.nonIsolated) = { 0, 1 }

\* what an engine freshly constructed with the configuration most recently
\* supplied returns on the points
FreshEngineCall == removeIsolatedPoints(supplied, points)

\* C12: whatever reconfigurations and calls (failed ones included) came
\* before, the engine holds every field of the configuration most recently
\* supplied, and a call ends as on a freshly constructed engine holding that
\* configuration: same outcome, same set of indices, same grid content.
C12_HistoryIndependent ==
  /\ config = supplied
  /\ Called =>
       /\ last.outcome = FreshEngineCall.outcome
       /\ IndexSet(last.nonIsolated) = IndexSet(FreshEngineCall.nonIsolated)
       /\ last.partition = FreshEngineCall.partition

\* C12 witness: a call returning indices on an engine one of whose earlier
\* calls threw (so reconfigured since), with a memory budget of 0
C12_Witness ==
  /\ Returned
  /\ failed
  /\ last.nonIsolated # << >>
  /\ supplied.maxMemory = 0

\* C13: with maxMemory = 0 the grid of the call has the cell size
\* maximumOptimalCellSize(sqrt(radius2)), never doubled, whatever the number
\* of cells, and its cells count as contained in the isolation sphere.
C13_NoBudgetNoDoubling ==
  (Called /\ config.maxMemory = 0) =>
    /\ last.partition.cellSize = maximumOptimalCellSize(config.radius2)
    /\ last.partition.dims =
         diceVolume(config.rangeX, config.rangeY, config.rangeZ,
                    maximumOptimalCellSize(config.radius2))
    /\ CellContainedInIsolationSphere

\* C13 witness: a call with maxMemory = 0 on a grid of more than 2 cells,
\* which any budget in use would have made coarser
C13_Witness ==
  /\ Called
  /\ config.maxMemory = 0
  /\ gridSize(last.partition.dims) > 2
  /\ \A m \in Budgets \ { 0 } :
       computeCellSize([ config EXCEPT !.maxMemory = m ])
         > last.partition.cellSize

\* C14: bruteRemoveIsolatedPoints returns, for any input (inside the volume
\* or not), exactly the indices of the points that have a point at another
\* position of the input within the radius (squared distance <= radius2),
\* each once, in ascending order; points with the same coordinates at two
\* positions are neighbours of each other.
C14_BruteForceExact ==
  last.op = "bruteRemoveIsolatedPoints" =>
    /\ last.outcome = "returned"
    /\ IndexSet(last.nonIsolated) = WithNeighbour(config, points)
    /\ \A m, n \in 1..Len(last.nonIsolated) :
         m < n => last.nonIsolated[m] < last.nonIsolated[n]

\* C14 witness: two points with the same coordinates, outside the volume,
\* both returned
C14_Witness ==
  /\ last.op = "bruteRemoveIsolatedPoints"
  /\ Len(points) = 2
  /\ points[1] = points[2]
  /\ ~InVolume(config, points[1])
  /\ last.nonIsolated = << 0, 1 >>

\* the first n points of PointIsolationTest1, in the order of the test
Test1Prefix(n) == SubSeq(Test1Points, 1, n)

\* C15: with ranges [-2,2] and radius 1 the call returns, as sets, {} for
\* the test's first two points, {0, 2} for its first three and {0, 1, 2, 3}
\* for all four; and for any input made of these points, an index is in or
\* out of the result differently than without the last point only if it is
\* the last point's or that of a point within the radius of the last point.
C15_Test1Results ==
  Called =>
    /\ last.outcome = "returned"
    /\ points = Test1Prefix(2) => IndexSet(last.nonIsolated) = { }
    /\ points = Test1Prefix(3) => IndexSet(last.nonIsolated) = { 0, 2 }
    /\ points = Test1Prefix(4) => IndexSet(last.nonIsolated) = { 0, 1, 2, 3 }
    /\ Len(points) > 0 =>
         LET n == Len(points)
             before == removeIsolatedPoints(config, SubSeq(points, 1, n - 1))
         IN  \A i \in 0..(n - 2) :
               ((i \in IndexSet(last.nonIsolated))
                  # (i \in IndexSet(before.nonIsolated)))
                 => Dist2(points[i + 1], points[n]) <= config.radius2

\* C15 witness: the call on the four points of the test returned 4 indices
C15_Witness ==
  /\ Returned
  /\ config = Test1Config
  /\ points = Test1Points
  /\ Len(last.nonIsolated) = 4
  /\ IndexSet(last.nonIsolated) = { 0, 1, 2, 3 }

\* C16: for the points of a cubic lattice of unit spacing, pointsPerSide >= 1
\* per side, in the volume [-0.5, pointsPerSide - 0.5] on each axis, the call
\* returns all pointsPerSide^3 points when radius2 >= 1 and no point when
\* radius2 < 1.
C16_LatticeAllOrNone ==
  (Called /\ points = createPointsInCube(pointsPerSideOf(config))) =>
    /\ last.outcome = "returned"
    /\ config.radius2 >= StressUnit * StressUnit =>
         /\ Len(last.nonIsolated) = Len(points)
         /\ IndexSet(last.nonIsolated) = 0..(Len(points) - 1)
    /\ config.radius2 < StressUnit * StressUnit =>
         last.nonIsolated = << >>

\* the cell fill() put the point at position a of the input in
CellOf(a) == pointIndex(last.partition, points[a]).index

\* C17: two elements of the input with the same coordinates, inside the
\* volume, are both reported non-isolated, whatever the radius and whether
\* the cell size was doubled or not; and no point is reported on account of
\* itself: a reported point has an element at another position of the input
\* within the radius or in its cell.
C17_CoincidentPointsReported ==
  Called =>
    /\ \A a, b \in 1..Len(points) :
         (a # b /\ points[a] = points[b] /\ InVolume(config, points[a]))
           => /\ last.outcome = "returned"
              /\ (a - 1) \in IndexSet(last.nonIsolated)
              /\ (b - 1) \in IndexSet(last.nonIsolated)
    /\ \A i \in IndexSet(last.nonIsolated) :
         \E a \in 1..Len(points) :
           /\ a # i + 1
           /\ \/ Dist2(points[a], points[i + 1]) <= config.radius2
              \/ CellOf(a) = CellOf(i + 1)

\* C18: a point whose three coordinates are contained in their ranges
\* (bounds included, also a coordinate on the upper bound of a range whose
\* size is a multiple of the cell edge) gets a cell from pointIndex, and
\* fill() does not throw on an input of such points.
C18_InVolumePointsAccepted ==
  Called =>
    /\ \A p \in Points :
         InVolume(config, p) =>
           ~pointIndex(SpacePartition(config.rangeX, config.rangeY,
                                      config.rangeZ, last.partition.cellSize),
                       p).thrown
    /\ AllInVolume => last.outcome = "returned"

\* whether the cell loop reports the point at position a of the input: it
\* shares its cell (cells contained in the isolation sphere) or it has an
\* element at another position within the radius
Reported(a) ==
  \/ /\ CellContainedInIsolationSphere
     /\ \E b \in 1..Len(points) : b # a /\ CellOf(b) = CellOf(a)
  \/ \E b \in 1..Len(points) :
       b # a /\ Dist2(points[a], points[b]) <= config.radius2

\* C19: when the call on n points returns, every returned index is in
\* 0 .. n-1, no index is returned twice, and the returned indices are the
\* positions in the input of the points the cell loop reports, on the fast
\* path and on the general path.
C19_IndicesArePositions ==
  Returned =>
    /\ \A k \in 1..Len(last.nonIsolated) :
         last.nonIsolated[k] \in 0..(Len(points) - 1)
    /\ Cardinality(IndexSet(last.nonIsolated)) = Len(last.nonIsolated)
    /\ IndexSet(last.nonIsolated)
         = { a - 1 : a \in { b \in 1..Len(points) : Reported(b) } }

\* C19 witness: two points in two different cells, both returned, the second
\* of the input from the cell visited first
C19_Witness ==
  /\ Returned
  /\ Len(points) = 2
  /\ CellOf(2) < CellOf(1)
  /\ last.nonIsolated = << 1, 0 >>

\* the cell number of coordinate axis (1, 2, 3) of the point at position a
CellNumberOn(a, axis) ==
  cellNumber(last.partition, points[a][axis],
             << config.rangeX, config.rangeY, config.rangeZ >>[axis])

\* C20: with neighExtent = ceil(R / cellSize), any two points inside the
\* volume within the radius of each other are put in cells whose numbers
\* differ by at most neighExtent on each axis, and each of the two is in the
\* result of the call, with the cell size doubled or not.
C20_NeighbourhoodComplete ==
  Called =>
    \A a, b \in 1..Len(points) :
      (/\ a # b
       /\ InVolume(config, points[a])
       /\ InVolume(config, points[b])
       /\ Dist2(points[a], points[b]) <= config.radius2)
      => /\ \A axis \in 1..3 :
              Abs(CellNumberOn(a, axis) - CellNumberOn(b, axis))
                <= neighExtentOf(config.radius2, last.partition.cellSize)
         /\ last.outcome = "returned"
         /\ (a - 1) \in IndexSet(last.nonIsolated)

\* number of cells of the volume diced with the cell size doubled k times
CellCountAfter(cfg, k) ==
  gridSize(diceVolume(cfg.rangeX, cfg.rangeY, cfg.rangeZ,
                      Pow4(k) * maximumOptimalCellSize(cfg.radius2)))

\* the cell size of the call is maximumOptimalCellSize(R) * 2^k for the
\* smallest k at which Stops(k) holds
SmallestDoubling(Stops(_)) ==
  \E k \in 0..8 :
    /\ Stops(k)
    /\ \A j \in 0..(k - 1) : ~Stops(j)
    /\ last.partition.cellSize
         = Pow4(k) * maximumOptimalCellSize(config.radius2)

\* C21 as claimed: with maxMemory > 0, the cell size is
\* maximumOptimalCellSize(R) * 2^k for the smallest k such that the grid has
\* at most 1 cell or needs no more than maxMemory bytes; no doubling when
\* the memory needed equals maxMemory.
C21_DoublesWhileAboveBudget ==
  (Called /\ config.maxMemory > 0) =>
    LET Stops(k) ==
          \/ CellCountAfter(config, k) <= 1
          \/ CellCountAfter(config, k) * CellBytes <= config.maxMemory
    IN  SmallestDoubling(Stops)

\* C21 as amended: with maxMemory > 0, the cell size is
\* maximumOptimalCellSize(R) * 2^k for the smallest k such that the grid has
\* at most 1 cell or needs less than maxMemory bytes; the cell size is
\* doubled when the memory needed equals maxMemory.
C21_DoublesUntilBelowBudget ==
  (Called /\ config.maxMemory > 0) =>
    LET Stops(k) ==
          \/ CellCountAfter(config, k) <= 1
          \/ CellCountAfter(config, k) * CellBytes < config.maxMemory
    IN  SmallestDoubling(Stops)

\* C21 witness: a call whose grid, after some doublings, needs exactly
\* maxMemory bytes with more than 1 cell, is doubled once more, and stops
\* with more than 1 cell because the grid then needs less than maxMemory
C21_Witness ==
  /\ Called
  /\ config.maxMemory > 0
  /\ \E k \in 1..8 :
       /\ last.partition.cellSize
            = Pow4(k) * maximumOptimalCellSize(config.radius2)
       /\ CellCountAfter(config, k - 1) * CellBytes = config.maxMemory
       /\ CellCountAfter(config, k) > 1
       /\ CellCountAfter(config, k) * CellBytes < config.maxMemory

\* the positions (in input order) of the first n points of the input that
\* pointIndex puts in cell c
OwnedBy(c, n) ==
  SelectSeq([ a \in 1..n |-> a ], LAMBDA a : CellOf(a) = c)

\* C22: when the call throws, the point fill() stopped at is the first one
\* pointIndex rejects, every cell holds exactly the references to the
\* points before it that it owns, no reference to that point or a later one
\* is stored, and no index list is returned.
C22_FillFailsFast ==
  Thrown =>
    /\ last.at \in 1..Len(points)
    /\ pointIndex(last.partition, points[last.at]).thrown
    /\ \A a \in 1..(last.at - 1) : ~pointIndex(last.partition, points[a]).thrown
    /\ \A c \in Cells : last.partition.data[c] = OwnedBy(c, last.at - 1)
    /\ last.nonIsolated = << >>

\* C22 witness: the second point of the input is rejected and the first one
\* is left in its cell
C22_Witness ==
  /\ Thrown
  /\ last.at = 2
  /\ \E c \in Cells : last.partition.data[c] = << 1 >>

\* floor(d / cellSize), cs3 = 3 * cellSize^2
FloorQuot(d, cs3) ==
  IF d >= 0 THEN TruncQuot(d, cs3)
  ELSE -(CHOOSE n \in 0..(-d) :
           /\ n * n * cs3 >= 3 * d * d
           /\ (n = 0 \/ (n - 1) * (n - 1) * cs3 < 3 * d * d))

\* the flat index of the cell with per-axis numbers
\* floor((coord - range.lower) / cellSize)
FloorCellOf(a) ==
  index(last.partition.dims,
        << FloorQuot(rangeOffset(config.rangeX, points[a][1]),
                     last.partition.cellSize),
           FloorQuot(rangeOffset(config.rangeY, points[a][2]),
                     last.partition.cellSize),
           FloorQuot(rangeOffset(config.rangeZ, points[a][3]),
                     last.partition.cellSize) >>)

\* C23: after fill() succeeded on n points, every point is referenced in
\* exactly one cell, the one pointIndex returns for it, whose number on each
\* axis is floor((coord - range.lower) / cellSize); the cells hold n
\* references in all, in input order within a cell.
C23_EachPointInItsFloorCell ==
  Returned =>
    /\ \A a \in 1..Len(points) :
         /\ CellOf(a) = FloorCellOf(a)
         /\ \A c \in Cells :
              (\E k \in 1..Len(last.partition.data[c]) :
                 last.partition.data[c][k] = a) <=> (c = CellOf(a))
    /\ \A c \in Cells : last.partition.data[c] = OwnedBy(c, Len(points))

\* the neighbour offset list of the last removeIsolatedPoints() call
NeighListUsed ==
  neighListOf(config, last.partition.cellSize, last.partition.dims)

NeighExtentUsed == neighExtentOf(config.radius2, last.partition.cellSize)

CellContainedUsed ==
  last.partition.cellSize <= maximumOptimalCellSize(config.radius2)

\* C24: the neighbour offset list used by removeIsolatedPoints has
\* (2 neighExtent + 1)^3 - 1 entries when the cell is contained in the
\* isolation sphere, and (2 neighExtent + 1)^3 entries when it is not: the
\* same list with a single zero offset at the front.
C24_NeighbourListSize ==
  (last.op = "removeIsolatedPoints") =>
    LET side == 2 * NeighExtentUsed + 1
        built == buildNeighborhood(last.partition.dims, NeighExtentUsed)
    IN  /\ Len(built) = side * side * side - 1
        /\ CellContainedUsed => NeighListUsed = built
        /\ ~CellContainedUsed => NeighListUsed = << 0 >> \o built

\* a cell ID valid on all three axes of the index manager
ValidCellID(id) ==
  hasX(indices, id[1]) /\ hasY(indices, id[2]) /\ hasZ(indices, id[3])

Shifted(a, d) == << a[1] + d[1], a[2] + d[2], a[3] + d[3] >>

\* C25: position independence of offsets: for every grid, every valid cell a
\* and every 3D delta d such that a + d is valid on all three axes,
\* index(a) + offset({0,0,0}, d) = index(a + d).
C25_OffsetsArePositionIndependent ==
  (last.op = "offset") =>
    \A a \in CellIDs :
      (ValidCellID(a) /\ ValidCellID(Shifted(a, last.cellID)))
        => index(indices, a) + last.result
             = index(indices, Shifted(a, last.cellID))

C25_Witness ==
  /\ indices = << 2, 3, 2 >>
  /\ last.op = "offset"
  /\ last.cellID = << -1, 2, -1 >>
  /\ last.result = -3
  /\ ValidCellID(Shifted(<< 1, 0, 1 >>, last.cellID))

\* C26: index() is a bijection between the cell IDs valid on all three axes
\* and the flat indices for which has() is true: a valid cell ID gets the
\* valid index ix (ny nz) + iy nz + iz, no other valid cell ID gets it, and
\* every valid flat index is the index of a valid cell ID.
C26_IndexIsBijection ==
  (last.op = "index") =>
    /\ ValidCellID(last.id) =>
         /\ has(indices, last.result)
         /\ \A b \in CellIDs :
              (ValidCellID(b) /\ b # last.id)
                => index(indices, b) # last.result
    /\ \A i \in 0..(gridSize(indices) - 1) :
         \E b \in CellIDs : ValidCellID(b) /\ index(indices, b) = i

C26_Witness ==
  /\ indices = << 2, 3, 2 >>
  /\ last.op = "index"
  /\ last.id = << 1, 2, 1 >>
  /\ last.result = 11

\* C27: throughout removeIsolatedPoints every cell that is read has a flat
\* index in [0, nx ny nz): the iteration index is below the cell count, and
\* a neighbour address cellIndex + neighOfs, which may be negative or not
\* below the cell count, is dereferenced only after has() was true for it.
C27_ReadsStayInGrid ==
  Returned =>
    /\ \A a \in 1..Len(points) : has(last.partition.dims, CellOf(a))
    /\ \A c \in cellsRead(config, points, last.partition, NeighListUsed) :
         has(last.partition.dims, c)

C27_Witness ==
  /\ Returned
  /\ \E c \in Cells :
       /\ last.partition.data[c] # << >>
       /\ \E n \in 1..Len(NeighListUsed) : c + NeighListUsed[n] < 0
       /\ \E n \in 1..Len(NeighListUsed) :
            c + NeighListUsed[n] >= gridSize(last.partition.dims)
       /\ \E d \in cellsRead(config, points, last.partition, NeighListUsed) :
            d # c /\ last.partition.data[d] # << >>

\* the per-axis cell numbers of flat index c in the last call's grid
CellIDOf(c) ==
  LET dims == last.partition.dims
  IN  << c \div (dims[2] * dims[3]), (c \div dims[3]) % dims[2], c % dims[3] >>

WithinExtent(c, d) ==
  \A i \in 1..3 : Abs(CellIDOf(d)[i] - CellIDOf(c)[i]) <= NeighExtentUsed

\* the cells whose contents the general path compares against a point of c
ComparedWith(c) ==
  UNION { neighboursRead(config, points, last.partition, c,
                         last.partition.data[c][n], NeighListUsed) :
            n \in 1..Len(last.partition.data[c]) }

GeneralPath(c) ==
  /\ last.partition.data[c] # << >>
  /\ ~(CellContainedUsed /\ Len(last.partition.data[c]) > 1)

\* C28: for a reference cell c, every cell whose contents the general path
\* compares against a point of c lies within neighExtent cells of c on each
\* of the three axes, and is c itself only when the zero offset was
\* deliberately added (the cell is not contained in the isolation sphere):
\* no flat offset wraps around a grid row or plane.
C28_NoWrapAround ==
  Returned =>
    \A c \in Cells :
      GeneralPath(c) =>
        \A d \in ComparedWith(c) :
          /\ WithinExtent(c, d)
          /\ (d = c) => ~CellContainedUsed

\* C29: for every configuration accepted by validateConfiguration (radius2
\* >= 0, radius2 = 0 included, and lower <= upper on each axis) and every
\* maxMemory, the doubling loop of computeCellSize terminates and returns a
\* cell size > 0, so the assertion cellSize > 0 in removeIsolatedPoints
\* holds: the call gets to fill the grid and returns or throws.
C29_CellSizePositive ==
  (Called /\ configurationErrors(config) = << >>) =>
    /\ last.outcome \in { "returned", "thrown" }
    /\ last.partition.cellSize > 0

\* the setup() call just made raised an error
SetupFailed == last.op = "setup" /\ last.outcome = "thrown"

\* what a setup() call leaves in place when it raises an error
FailedSetupChangesNothing ==
  SetupFailed' => UNCHANGED << isolationAlg, config >>

\* the wrapped algorithm as the setup() calls so far determine it
WrappedAlgorithmAsSetUp ==
  /\ isolationAlg <=> (supplied # NoConfiguration)
  /\ isolationAlg =>
       /\ config = supplied
       /\ config.radius2 = radius2
       /\ configurationErrors(config) = << >>
  /\ (last.op = "setup") =>
       /\ << last.checked.rangeX, last.checked.rangeY, last.checked.rangeZ >>
            = geom
       /\ last.checked.radius2 = radius2
       /\ SetupFailed <=> (configurationErrors(last.checked) # << >>)
       /\ ~SetupFailed => (isolationAlg /\ config = last.checked)
  /\ Called =>
       IF isolationAlg
         THEN last = removeIsolatedPoints(config, points)
       ELSE last.outcome = "undefined"

\* C30: after any sequence of setup() calls the wrapped PointIsolationAlg
\* exists only if some setup succeeded, and then holds the configuration
\* (radius2 and the ranges from the geometry) of the most recent successful
\* setup; a setup whose derived configuration fails validateConfiguration
\* raises an error and leaves the wrapped algorithm's existence and
\* configuration unchanged; removeIsolatedPoints is usable only after a
\* successful setup.
C30_SetupKeepsLastValid ==
  [](WrappedAlgorithmAsSetUp) /\ [][FailedSetupChangesNothing]_vars

C30_Witness ==
  /\ SetupFailed
  /\ isolationAlg
  /\ geom = << Range(2, 0), Range(0, 1), Range(0, 1) >>
  /\ config.rangeX = Range(-14, 1)

====
